---- MODULE Spec2Model ----
(***************************************************************************)
(* Elastic resource allocation: tasks with storage / computation / results *)
(* demand, a deadline and a value are placed on servers with storage,      *)
(* computation and bandwidth capacity.  The module models                  *)
(*   - matrix_greedy            (src/greedy_matrix/matrix_greedy.py)       *)
(*   - fixed_optimal_algorithm  (src/src/optimal/fixed_optimal.py)         *)
(*   - vcg_solver and its fixed_vcg_auction wrapper                        *)
(*                              (src/src/auctions/vcg_auction.py)          *)
(*   - fixed_vcg_auction over branch and bound                             *)
(*                              (src/src/auctions/fixed_vcg_auction.py)    *)
(*   - the drivers single_price_itreative_auction                          *)
(*                              (src/testing/iridis/auction_testing.py)    *)
(*     and greedy_evaluation    (src/evaluation/greedy.py)                 *)
(* core.core (allocate, reset_model, list_copy_remove), Server.can_run and *)
(* branch_bound_algorithm are not part of the sources at hand; they are    *)
(* modelled from the specification's sections 3, 4.1, 4.3 and 6.           *)
(***************************************************************************)
EXTENDS Integers, Sequences, FiniteSets, TLC

(* ----------------------------- bounds ---------------------------------- *)
MaxTasks == 2
MaxServers == 2
(* the cube searched for a fixed task's speeds *)
MaxSpeed == 3
(* the solves of one run that may stop at their time limit *)
MaxTimeLimitsHit == 1
(* the largest node budget handed to a branch and bound search *)
MaxNodes == 3
(* the repeats of a driver's outer loop *)
MaxRepeats == 2
(* the policy combinations greedy_evaluation loops over *)
MaxPolicies == 2
(* the workers a branch and bound search is distributed over *)
MaxWorkers == 2
MaxMutateRepeats == 2

(* Python's None for an unset speed or running server.  Speeds are non-zero *)
(* integers and servers are numbered from 1, so 0 is free to stand for it.  *)
None == 0

(* An unset price is the empty sequence, a price p is <<p>>: a price of 0   *)
(* and a negative price are both values the code can compute.               *)
NoPrice == << >>

(* ------------------------ the generator's instances -------------------- *)
(* generate() -> (tasks, servers): static fields populated, all positive.  *)
TaskTypes ==
    [required_storage : {1, 2}, required_computation : {1, 2},
     required_results_data : {1}, deadline : {3}, value : {1, 2}]

ServerTypes ==
    { [storage_capacity |-> 2, computation_capacity |-> 1, bandwidth_capacity |-> 3],
      [storage_capacity |-> 1, computation_capacity |-> 2, bandwidth_capacity |-> 2],
      [storage_capacity |-> 3, computation_capacity |-> 3, bandwidth_capacity |-> 5] }

(* ------------------------- deadline and speeds ------------------------- *)
(* The deadline inequality in its integer form.                            *)
DeadlineMet(job, s, w, r) ==
    job.required_storage * w * r + s * job.required_computation * r
        + s * w * job.required_results_data <= job.deadline * s * w * r

(* t comes before u in the order the generators of the code produce speed  *)
(* triples: s, then w, then r, each ascending.                             *)
TripleBefore(t, u) ==
    \/ t[1] < u[1]
    \/ t[1] = u[1] /\ t[2] < u[2]
    \/ t[1] = u[1] /\ t[2] = u[2] /\ t[3] <= u[3]

(* FixedTask(task, FixedSumSpeeds()): the speeds of a fixed task are set   *)
(* once, to the deadline-meeting triple of least sum (the first such in    *)
(* s, w, r order), and are static from then on.                            *)
FixedSumSpeeds(job) ==
    LET cube == { t \in (1..MaxSpeed) \X (1..MaxSpeed) \X (1..MaxSpeed) :
                     DeadlineMet(job, t[1], t[2], t[3]) }
        best == CHOOSE t \in cube :
                    \A u \in cube :
                        \/ t[1] + t[2] + t[3] < u[1] + u[2] + u[3]
                        \/ /\ t[1] + t[2] + t[3] = u[1] + u[2] + u[3]
                           /\ TripleBefore(t, u)
    IN  [loading_speed |-> best[1], compute_speed |-> best[2], sending_speed |-> best[3]]

(* A task as the algorithms see it: the generator's demand record with the *)
(* fixed speeds its FixedTask carries.                                     *)
FixedTask(job) ==
    [required_storage |-> job.required_storage,
     required_computation |-> job.required_computation,
     required_results_data |-> job.required_results_data,
     deadline |-> job.deadline, value |-> job.value,
     fixed |-> FixedSumSpeeds(job)]

(* task.loading_speed, task.compute_speed, task.sending_speed of a fixed task *)
FixedSpeeds(job) == job.fixed

(* A total order on the generator's records, used only to list each        *)
(* multiset of tasks once, in non-decreasing order, and each set of        *)
(* servers of different capacities once, in increasing order.              *)
TaskKey(t) ==
    ((t.required_storage * 4 + t.required_computation) * 4 + t.value)

ServerKey(s) ==
    ((s.storage_capacity * 8 + s.computation_capacity) * 8 + s.bandwidth_capacity)

TaskLists ==
    UNION { { [k \in 1..n |-> FixedTask(l[k])] :
                l \in { l \in [1..n -> TaskTypes] :
                          \A i \in 1..n : \A j \in 1..n :
                              i < j => TaskKey(l[i]) <= TaskKey(l[j]) } }
            : n \in 0..MaxTasks }

ServerLists ==
    UNION { { l \in [1..n -> ServerTypes] :
                \A i \in 1..n : \A j \in 1..n : i < j => ServerKey(l[i]) < ServerKey(l[j]) }
            : n \in 1..MaxServers }

(* ------------------------------ state ---------------------------------- *)
VARIABLES
    algorithm,         \* the entry point this behaviour runs
    tasks,             \* the task list: static demand records
    servers,           \* the server list: static capacity records
    task_state,        \* per task: loading/compute/sending speed, running_server, price
    server_state,      \* per server: available_* and allocated_tasks
    pc,                \* position in the running entry point
    unallocated_jobs,  \* matrix_greedy: the jobs still under consideration
    iterations,        \* matrix_greedy: loop bodies executed so far
    matrix_policy,     \* matrix_greedy: the AllocationValuePolicy passed in
    vcg,               \* vcg_solver / fixed_vcg_auction locals
    time_limits_hit,   \* solves of this run that stopped at their time limit
    node_budget,       \* branch and bound on its own: the node budget handed in
    result,            \* what the entry point returned
    driver,            \* the locals of the evaluation driver that calls the runs
    workers,           \* branch and bound over several workers: pool, stacks, shared best
    greedy             \* the Greedy Engine: its policy triple and the tasks it dropped

vars == <<algorithm, tasks, servers, task_state, server_state, pc,
          unallocated_jobs, iterations, matrix_policy, vcg, time_limits_hit, node_budget, result,
          driver, workers, greedy>>

TaskIds == 1..Len(tasks)
ServerIds == 1..Len(servers)

(* ------------------------- feasibility model --------------------------- *)
(* Speed triples whose sending speed ranges over the whole available       *)
(* bandwidth, the loading speed not taken off it.                          *)
SpeedTriplesWholeBandwidth(job, bandwidth, computation) ==
    { t \in (1..bandwidth) \X (1..computation) \X (1..bandwidth) :
        DeadlineMet(job, t[1], t[2], t[3]) }

(* The admissible speed triples of a job on a server with the given        *)
(* available bandwidth and computation: the generator of allocate_resources*)
SpeedTriples(job, bandwidth, computation) ==
    { t \in (1..bandwidth) \X (1..computation) \X (1..bandwidth) :
        /\ t[3] <= bandwidth - t[1]
        /\ DeadlineMet(job, t[1], t[2], t[3]) }

(* Server.can_run(job)                                                     *)
can_run(sv, job) ==
    /\ job.required_storage <= sv.available_storage
    /\ SpeedTriples(job, sv.available_bandwidth, sv.available_computation) # {}

(* ---------------------------- core.core -------------------------------- *)
UnallocatedTask ==
    [loading_speed |-> None, compute_speed |-> None, sending_speed |-> None,
     running_server |-> None, price |-> NoPrice]

FullServer(s) ==
    [available_storage |-> s.storage_capacity,
     available_computation |-> s.computation_capacity,
     available_bandwidth |-> s.bandwidth_capacity,
     allocated_tasks |-> {}]

(* reset_model(tasks, servers): allocation fields cleared, static kept.    *)
ResetTasks(ts) == [i \in DOMAIN ts |-> UnallocatedTask]

ResetServers(ss) == [j \in DOMAIN ss |-> FullServer(ss[j])]

(* task.allocate(s, w, r, server, price): the task's side of a commit.     *)
TaskAllocate(tstate, i, s, w, r, j, price) ==
    [tstate EXCEPT ![i] = [loading_speed |-> s, compute_speed |-> w,
                           sending_speed |-> r, running_server |-> j,
                           price |-> price]]

(* server.allocate_task(task): the server's side of a commit.              *)
ServerAllocate(sstate, ts, i, s, w, r, j) ==
    [sstate EXCEPT ![j] =
        [available_storage |-> @.available_storage - ts[i].required_storage,
         available_computation |-> @.available_computation - w,
         available_bandwidth |-> @.available_bandwidth - (s + r),
         allocated_tasks |-> @.allocated_tasks \cup {i}]]

(* ------------------------- matrix_greedy ------------------------------- *)
(* AllocationValuePolicy.evaluate(job, server, s, w, r): two policies, one *)
(* that favours the resources left on the server, one the speeds given.    *)
Policies == {"SumServerUsage", "SumSpeeds"}

evaluate(policy, job, sv, s, w, r) ==
    IF policy = "SumServerUsage"
    THEN job.value * ((sv.available_storage - job.required_storage)
                      + (sv.available_computation - w)
                      + (sv.available_bandwidth - (s + r)))
    ELSE job.value * (s + w + r)

(* the greatest of a non-empty set of integers *)
Max(S) == CHOOSE v \in S : \A u \in S : u <= v

(* allocate_resources(job, server, value): max(..., key=x[0]) returns the  *)
(* first of the triples of maximal value.                                  *)
allocate_resources(job, sv, policy) ==
    LET triples == SpeedTriples(job, sv.available_bandwidth, sv.available_computation)
        val == [t \in triples |-> evaluate(policy, job, sv, t[1], t[2], t[3])]
        top == Max({ val[t] : t \in triples })
        tops == { t \in triples : val[t] = top }
        best == CHOOSE t \in tops : \A u \in tops : TripleBefore(t, u)
    IN  [value |-> top, s |-> best[1], w |-> best[2], r |-> best[3]]

(* a value_matrix built for the first unallocated job only                 *)
value_matrix_first_job(unalloc, sstate, policy) ==
    { [pos |-> e[1], server |-> e[2],
       alloc |-> allocate_resources(tasks[unalloc[e[1]]], sstate[e[2]], policy)] :
        e \in { e \in {1} \X ServerIds :
                  can_run(sstate[e[2]], tasks[unalloc[e[1]]]) } }

(* value_matrix of one iteration: an entry per (position in                *)
(* unallocated_jobs, server) whose server can run the job.                 *)
value_matrix(unalloc, sstate, policy) ==
    { [pos |-> e[1], server |-> e[2],
       alloc |-> allocate_resources(tasks[unalloc[e[1]]], sstate[e[2]], policy)] :
        e \in { e \in (1..Len(unalloc)) \X ServerIds :
                  can_run(sstate[e[2]], tasks[unalloc[e[1]]]) } }

(* max(value_matrix, key=x[0]): the first entry of maximal value, entries  *)
(* being appended job by job and, within a job, server by server.          *)
MatrixMax(matrix) ==
    LET top == Max({ e.alloc.value : e \in matrix })
        tops == { e \in matrix : e.alloc.value = top }
    IN  CHOOSE e \in tops :
            \A f \in tops :
                e.pos < f.pos \/ (e.pos = f.pos /\ e.server <= f.server)

(* a remove that leaves the list as it is *)
RemoveAtNothing(seq, p) == seq

(* list.remove at a position *)
RemoveAt(seq, p) ==
    [k \in 1..(Len(seq) - 1) |-> IF k < p THEN seq[k] ELSE seq[k + 1]]

(* the position of an element in a list *)
PositionOf(seq, i) == CHOOSE p \in DOMAIN seq : seq[p] = i

(* One execution of the body of `while unallocated_jobs`.                  *)
MatrixGreedyIteration ==
    /\ algorithm = "matrix_greedy"
    /\ pc = "loop"
    /\ unallocated_jobs # << >>
    /\ \E matrix \in {value_matrix(unallocated_jobs, server_state, matrix_policy)} :
          IF matrix # {}
          THEN \E e \in {MatrixMax(matrix)} :
                  LET i == unallocated_jobs[e.pos]
                  IN  /\ task_state' = TaskAllocate(task_state, i, e.alloc.s, e.alloc.w,
                                                    e.alloc.r, e.server, NoPrice)
                      /\ server_state' = ServerAllocate(server_state, tasks, i, e.alloc.s,
                                                        e.alloc.w, e.alloc.r, e.server)
                      /\ unallocated_jobs' = RemoveAt(unallocated_jobs, e.pos)
                      /\ pc' = "loop"
          ELSE /\ pc' = "break"
               /\ UNCHANGED <<task_state, server_state, unallocated_jobs>>
    /\ iterations' = iterations + 1
    /\ UNCHANGED <<greedy, workers, driver, algorithm, time_limits_hit, node_budget, tasks, servers, matrix_policy, vcg, result>>

(* Sum of the values of the tasks that run on a server: Result's value.    *)
RECURSIVE SumOver(_, _)
SumOver(F(_), S) ==
    IF S = {} THEN 0
    ELSE LET x == CHOOSE y \in S : TRUE IN F(x) + SumOver(F, S \ {x})

(* the static fields summed by the algorithms *)
TaskValue(i) == tasks[i].value

SocialWelfare(tstate) ==
    SumOver(TaskValue,
            {i \in TaskIds : tstate[i].running_server # None})

(* return Result("Matrix Greedy", jobs, servers)                           *)
MatrixGreedyReturn ==
    /\ algorithm = "matrix_greedy"
    /\ \/ pc = "loop" /\ unallocated_jobs = << >>
       \/ pc = "break"
    /\ pc' = "done"
    /\ result' = [algorithm |-> "Matrix Greedy", value |-> SocialWelfare(task_state),
                  status |-> "optimal"]
    /\ UNCHANGED <<greedy, workers, driver, algorithm, time_limits_hit, node_budget, tasks, servers, task_state, server_state,
                   unallocated_jobs, iterations, matrix_policy, vcg>>

(* the range of a sequence of task ids *)
Range(seq) == { seq[k] : k \in DOMAIN seq }

(* Result.social_welfare / sum_value over the tasks handed to Result.      *)
ResultValue(ids, tstate) ==
    SumOver(TaskValue,
            {i \in Range(ids) : tstate[i].running_server # None})

(* core.allocate(task, s, w, r, server, price) raises AssertionError on a  *)
(* task that already runs somewhere or a server without the resources.     *)
AllocateAsserts(tstate, sstate, i, s, w, r, j) ==
    /\ tstate[i].running_server = None
    /\ tasks[i].required_storage <= sstate[j].available_storage
    /\ w <= sstate[j].available_computation
    /\ s + r <= sstate[j].available_bandwidth

(* -------------------- fixed_optimal_algorithm -------------------------- *)
(* what a fixed task takes of a server: required_storage, compute_speed,   *)
(* loading_speed + sending_speed                                           *)
FixedStorage(i) == tasks[i].required_storage

FixedCompute(i) == FixedSpeeds(tasks[i]).compute_speed

FixedBandwidth(i) == FixedSpeeds(tasks[i]).loading_speed + FixedSpeeds(tasks[i]).sending_speed

(* The constraints of the CP model: at most one server per task, and per   *)
(* server the storage, computation and bandwidth capacities.               *)
FixedSolutions(ids) ==
    { a \in [Range(ids) -> {None} \cup ServerIds] :
        \A j \in ServerIds :
            \E on \in {{ i \in Range(ids) : a[i] = j }} :
                /\ SumOver(FixedStorage, on) <= servers[j].storage_capacity
                /\ SumOver(FixedCompute, on) <= servers[j].computation_capacity
                /\ SumOver(FixedBandwidth, on) <= servers[j].bandwidth_capacity }

(* model.maximize(...): the objective of an assignment.                    *)
Objective(a) ==
    SumOver(TaskValue, { i \in DOMAIN a : a[i] # None })

(* the greatest objective among a non-empty set of assignments *)
MaxObjective(sols) == Max({ Objective(a) : a \in sols })

OptimalSolutions(ids) ==
    LET sols == FixedSolutions(ids)
        top == MaxObjective(sols)
    IN  { a \in sols : Objective(a) = top }

(* model.solve(TimeLimit=time_limit): the solver proves a solution optimal,*)
(* or stops at the time limit with the solution it holds (any feasible     *)
(* one), or stops at the time limit with none ("Unknown"). A model over no *)
(* task has no variable (line 34-35) and nothing to search: its only       *)
(* solution is found and proved at once.                                   *)
SolveOutcomes(ids) ==
    { [status |-> "Optimal", solution |-> a] : a \in OptimalSolutions(ids) }
    \cup IF ids # << >> /\ time_limits_hit < MaxTimeLimitsHit
         THEN { [status |-> "Feasible", solution |-> a] : a \in FixedSolutions(ids) }
              \cup { [status |-> "Unknown", solution |-> << >>] }
         ELSE {}

(* the solve stopped at its time limit *)
TimeLimitHit(outcome) == outcome.status # "Optimal"

(* The allocation loop of lines 64-69, stopped by the first AssertionError.*)
RECURSIVE AllocateSolution(_, _, _, _, _)
AllocateSolution(ids, k, a, tstate, sstate) ==
    IF k > Len(ids)
    THEN [ok |-> TRUE, task_state |-> tstate, server_state |-> sstate]
    ELSE LET i == ids[k]
             f == FixedSpeeds(tasks[i])
         IN  IF a[i] = None
             THEN AllocateSolution(ids, k + 1, a, tstate, sstate)
             ELSE IF ~AllocateAsserts(tstate, sstate, i, f.loading_speed,
                                      f.compute_speed, f.sending_speed, a[i])
             THEN [ok |-> FALSE, task_state |-> tstate, server_state |-> sstate]
             ELSE AllocateSolution(ids, k + 1, a,
                      TaskAllocate(tstate, i, f.loading_speed, f.compute_speed,
                                   f.sending_speed, a[i], NoPrice),
                      ServerAllocate(sstate, tasks, i, f.loading_speed,
                                     f.compute_speed, f.sending_speed, a[i]))

(* the status looked at after the allocation loop instead of before it,   *)
(* and only Optimal taken for solved                                       *)
fixed_optimal_check_after_allocate(ids, outcome, tstate, sstate) ==
    IF outcome.status # "Feasible" /\ outcome.status # "Optimal"
    THEN [none |-> TRUE, task_state |-> tstate, server_state |-> sstate,
          social_welfare |-> 0, status |-> outcome.status]
    ELSE LET done == AllocateSolution(ids, 1, outcome.solution, tstate, sstate)
         IN  [none |-> ~done.ok \/ outcome.status # "Optimal",
              task_state |-> done.task_state,
              server_state |-> done.server_state,
              social_welfare |-> ResultValue(ids, done.task_state),
              status |-> outcome.status]

(* a result of value 0 taken for no result ("if not result" for            *)
(* "if result is None")                                                    *)
fixed_optimal_falsy_result(ids, outcome, tstate, sstate) ==
    IF outcome.status # "Feasible" /\ outcome.status # "Optimal"
    THEN [none |-> TRUE, task_state |-> tstate, server_state |-> sstate,
          social_welfare |-> 0, status |-> outcome.status]
    ELSE LET done == AllocateSolution(ids, 1, outcome.solution, tstate, sstate)
         IN  [none |-> ~done.ok \/ ResultValue(ids, done.task_state) = 0,
              task_state |-> done.task_state,
              server_state |-> done.server_state,
              social_welfare |-> ResultValue(ids, done.task_state),
              status |-> outcome.status]

(* fixed_optimal_algorithm(tasks, servers, time_limit) under one outcome   *)
(* of the solve: the Result (or None) and the state it leaves.             *)
fixed_optimal_algorithm(ids, outcome, tstate, sstate) ==
    IF outcome.status # "Feasible" /\ outcome.status # "Optimal"
    THEN [none |-> TRUE, task_state |-> tstate, server_state |-> sstate,
          social_welfare |-> 0, status |-> outcome.status]
    ELSE LET done == AllocateSolution(ids, 1, outcome.solution, tstate, sstate)
         IN  [none |-> ~done.ok, task_state |-> done.task_state,
              server_state |-> done.server_state,
              social_welfare |-> ResultValue(ids, done.task_state),
              status |-> outcome.status]

AllIds == [k \in 1..Len(tasks) |-> k]

NoVcg == [phase |-> "none"]

NoResult == [algorithm |-> "none"]

(* no driver: the entry point is called on its own *)
NoDriver == [name |-> "none"]

(* no workers: the search is sequential *)
NoWorkers == [phase |-> "none"]

(* no policy triple: the run is not one of the Greedy Engine *)
NoGreedy == [phase |-> "none"]

ResultNone == [algorithm |-> "None"]

(* A run of fixed_optimal_algorithm on its own.                            *)
FixedOptimalRun ==
    /\ algorithm = "fixed_optimal"
    /\ pc = "start"
    /\ \E outcome \in SolveOutcomes(AllIds) :
          \E r \in {fixed_optimal_algorithm(AllIds, outcome, task_state, server_state)} :
              /\ task_state' = r.task_state
              /\ server_state' = r.server_state
              /\ time_limits_hit' = time_limits_hit + IF TimeLimitHit(outcome) THEN 1 ELSE 0
              /\ result' = IF r.none THEN ResultNone
                           ELSE [algorithm |-> "Fixed Optimal",
                                 value |-> r.social_welfare, status |-> r.status]
    /\ pc' = "done"
    /\ UNCHANGED <<greedy, workers, driver, algorithm, node_budget, tasks, servers, unallocated_jobs, iterations,
                   matrix_policy, vcg>>

(* ------------------------- branch and bound ---------------------------- *)
(* A node budget of NoBudget is no budget: the search runs to completion.  *)
NoBudget == 0

(* fixed_feasible_allocation: the fixed-speed feasibility check of a task  *)
(* on a server with the remaining capacity rem.                            *)
fixed_feasible_allocation(rem, i) ==
    LET f == FixedSpeeds(tasks[i]) IN
    /\ tasks[i].required_storage <= rem.available_storage
    /\ f.compute_speed <= rem.available_computation
    /\ f.loading_speed + f.sending_speed <= rem.available_bandwidth

(* Sum of the values of the undecided tasks ids[pos..].                    *)
UndecidedValue(ids, pos) ==
    SumOver(TaskValue, { ids[k] : k \in pos..Len(ids) })

(* a bound that leaves the undecided tasks out *)
UpperBoundAccumulated(ids, pos, acc) == acc

(* The optimistic bound of a node.                                         *)
UpperBound(ids, pos, acc) == acc + UndecidedValue(ids, pos)

(* Prune a node when its bound is <= the incumbent's value.                *)
Prune(bound, incumbent) == bound <= incumbent

(* Depth-first search.  A node is (decided prefix ids[1..pos-1], partial   *)
(* assignment a, remaining capacity rem, accumulated value acc); best is   *)
(* the incumbent with the nodes visited so far.  Children: one per server  *)
(* that can still host ids[pos], in server order, then "leave unallocated".*)
RECURSIVE BBNode(_, _, _, _, _, _, _), BBChildren(_, _, _, _, _, _, _, _)
BBNode(ids, pos, a, rem, acc, best, budget) ==
    IF budget # NoBudget /\ best.nodes >= budget
    THEN [best EXCEPT !.exhausted = TRUE]
    ELSE LET b == [best EXCEPT !.nodes = @ + 1] IN
         IF pos > Len(ids)
         THEN IF acc > b.value THEN [b EXCEPT !.value = acc, !.solution = a] ELSE b
         ELSE IF Prune(UpperBound(ids, pos, acc), b.value)
         THEN [b EXCEPT !.pruned = @ + 1]
         ELSE BBChildren(ids, pos, a, rem, acc, b, budget, 1)

BBChildren(ids, pos, a, rem, acc, best, budget, j) ==
    IF j > Len(servers)
    THEN BBNode(ids, pos + 1, a, rem, acc, best, budget)
    ELSE LET i == ids[pos]
             f == FixedSpeeds(tasks[i])
             after ==
                 IF fixed_feasible_allocation(rem[j], i)
                 THEN BBNode(ids, pos + 1, [a EXCEPT ![i] = j],
                             ServerAllocate(rem, tasks, i, f.loading_speed,
                                            f.compute_speed, f.sending_speed, j),
                             acc + tasks[i].value, best, budget)
                 ELSE best
         IN  BBChildren(ids, pos, a, rem, acc, after, budget, j + 1)

(* branch_bound_algorithm(tasks, servers, fixed_feasible_allocation): the  *)
(* search from the state handed in, then the commit of the incumbent.      *)
branch_bound_algorithm(ids, tstate, sstate, budget) ==
    LET found == BBNode(ids, 1, [i \in Range(ids) |-> None], sstate, 0,
                        [value |-> 0, solution |-> [i \in Range(ids) |-> None],
                         nodes |-> 0, pruned |-> 0, exhausted |-> FALSE], budget)
        done == AllocateSolution(ids, 1, found.solution, tstate, sstate)
    IN  [none |-> FALSE, task_state |-> done.task_state,
         server_state |-> done.server_state,
         sum_value |-> ResultValue(ids, done.task_state),
         search_value |-> found.value, pruned |-> found.pruned,
         status |-> IF found.exhausted THEN "feasible" ELSE "optimal"]

(* A run of branch_bound_algorithm on its own, under a node budget.       *)
BranchBoundRun ==
    /\ algorithm = "branch_bound"
    /\ pc = "start"
    /\ \E r \in {branch_bound_algorithm(AllIds, task_state, server_state, node_budget)} :
          /\ task_state' = r.task_state
          /\ server_state' = r.server_state
          /\ result' = [algorithm |-> "Branch Bound", value |-> r.sum_value,
                        status |-> r.status, pruned |-> r.pruned]
    /\ pc' = "done"
    /\ UNCHANGED <<greedy, workers, driver, algorithm, time_limits_hit, node_budget, tasks, servers,
                   unallocated_jobs, iterations, matrix_policy, vcg>>

(* ------------------- vcg_solver (vcg_auction.py) ----------------------- *)
(* list_copy_remove(tasks, task) *)
list_copy_remove(ids, t) ==
    LET p == CHOOSE k \in DOMAIN ids : ids[k] = t IN RemoveAt(ids, p)

(* [task for task in tasks if task.running_server], in list order.         *)
RECURSIVE AllocatedIn(_, _)
AllocatedIn(ids, tstate) ==
    IF ids = << >> THEN << >>
    ELSE IF tstate[Head(ids)].running_server # None
    THEN <<Head(ids)>> \o AllocatedIn(Tail(ids), tstate)
    ELSE AllocatedIn(Tail(ids), tstate)

(* the state is one reset_model leaves *)
IsReset(tstate, sstate) ==
    /\ tstate = ResetTasks(tasks)
    /\ sstate = ResetServers(servers)

(* task_prices[task] = ... *)
SetPrice(prices, t, p) ==
    [i \in DOMAIN prices \cup {t} |-> IF i = t THEN p ELSE prices[i]]

(* the record kept of one re-solve: what it was handed, what it returned   *)
PrimeRecord(ids, tstate, sstate, value) ==
    [tasks_prime |-> Range(ids), from_reset |-> IsReset(tstate, sstate),
     social_welfare |-> value]

(* the subtraction of line 62 the other way round *)
VcgPriceSwapped(optimal_social_welfare, prime_social_welfare) ==
    prime_social_welfare - optimal_social_welfare

(* vcg_solver's price of a task, line 62 *)
VcgPrice(optimal_social_welfare, prime_social_welfare) ==
    optimal_social_welfare - prime_social_welfare

(* return 0 in vcg_solver; the wrapper then returns None.                  *)
VcgFail ==
    /\ pc' = "done"
    /\ result' = ResultNone

(* lines 33-48: the solve over all tasks, and what is saved of it.         *)
VcgOptimalSolve ==
    /\ algorithm = "vcg"
    /\ pc = "start"
    /\ \E outcome \in SolveOutcomes(AllIds) :
          \E r \in {fixed_optimal_algorithm(AllIds, outcome, task_state, server_state)} :
          \E allocated \in {AllocatedIn(AllIds, r.task_state)} :
              /\ task_state' = r.task_state
              /\ server_state' = r.server_state
              /\ time_limits_hit' = time_limits_hit + IF TimeLimitHit(outcome) THEN 1 ELSE 0
              /\ IF r.none
                 THEN VcgFail /\ vcg' = [phase |-> "failed"]
                 ELSE /\ pc' = "loop"
                      /\ result' = result
                      /\ vcg' = [phase |-> "loop",
                                 optimal_social_welfare |-> r.social_welfare,
                                 allocated_tasks |-> allocated,
                                 task_allocation |->
                                     [i \in Range(allocated) |-> r.task_state[i]],
                                 task_prices |-> << >>,
                                 next |-> 1,
                                 optimal_tasks |-> r.task_state,
                                 optimal_servers |-> r.server_state,
                                 prime |-> << >>]
    /\ UNCHANGED <<greedy, workers, driver, algorithm, node_budget, tasks, servers, unallocated_jobs, iterations, matrix_policy>>

(* lines 51-63: one iteration of the loop over allocated_tasks.            *)
VcgPrimeSolve ==
    /\ algorithm = "vcg"
    /\ pc = "loop"
    /\ vcg.next <= Len(vcg.allocated_tasks)
    /\ \E task \in {vcg.allocated_tasks[vcg.next]} :
       \E tstate \in {ResetTasks(tasks)} :
       \E sstate \in {ResetServers(servers)} :
       \E tasks_prime \in {list_copy_remove(AllIds, task)} :
          \E outcome \in SolveOutcomes(tasks_prime) :
              \E r \in {fixed_optimal_algorithm(tasks_prime, outcome, tstate, sstate)} :
                  /\ task_state' = r.task_state
                  /\ server_state' = r.server_state
                  /\ time_limits_hit' = time_limits_hit + IF TimeLimitHit(outcome) THEN 1 ELSE 0
                  /\ IF r.none
                     THEN VcgFail /\ vcg' = [vcg EXCEPT !.phase = "failed"]
                     ELSE /\ pc' = "loop"
                          /\ result' = result
                          /\ vcg' = [vcg EXCEPT
                                 !.task_prices =
                                     SetPrice(@, task,
                                         VcgPrice(vcg.optimal_social_welfare,
                                                  r.social_welfare)),
                                 !.prime =
                                     SetPrice(@, task,
                                         PrimeRecord(tasks_prime, tstate, sstate,
                                                     r.social_welfare)),
                                 !.next = @ + 1]
    /\ UNCHANGED <<greedy, workers, driver, algorithm, node_budget, tasks, servers, unallocated_jobs, iterations, matrix_policy>>

(* core.allocate over a saved allocation: allocate(task, s, w, r, server,  *)
(* price) for every task of ids, from the state handed in.                 *)
RECURSIVE RestoreAll(_, _, _, _, _)
RestoreAll(ids, saved, prices, tstate, sstate) ==
    IF ids = << >>
    THEN [task_state |-> tstate, server_state |-> sstate]
    ELSE LET i == Head(ids)
             x == saved[i]
         IN  RestoreAll(Tail(ids), saved, prices,
                 TaskAllocate(tstate, i, x.loading_speed, x.compute_speed,
                              x.sending_speed, x.running_server, <<prices[i]>>),
                 ServerAllocate(sstate, tasks, i, x.loading_speed, x.compute_speed,
                                x.sending_speed, x.running_server))

(* lines 65-70 and the wrapper's lines 85-87: reset, restore, Result.      *)
VcgRestore ==
    /\ algorithm = "vcg"
    /\ pc = "loop"
    /\ vcg.next > Len(vcg.allocated_tasks)
    /\ \E r \in {RestoreAll(vcg.allocated_tasks, vcg.task_allocation, vcg.task_prices,
                              ResetTasks(tasks), ResetServers(servers))} :
           /\ task_state' = r.task_state
           /\ server_state' = r.server_state
           /\ result' = [algorithm |-> "Fixed VCG",
                         value |-> ResultValue(AllIds, r.task_state)]
    /\ pc' = "done"
    /\ vcg' = [vcg EXCEPT !.phase = "done"]
    /\ UNCHANGED <<greedy, workers, driver, algorithm, time_limits_hit, node_budget, tasks, servers, unallocated_jobs, iterations, matrix_policy>>

(* -------------- fixed_vcg_auction (fixed_vcg_auction.py) --------------- *)
(* the speeds handed to allocate by the restore of line 75 *)
RestoreSpeed == -1

(* line 68 *)
FixedVcgPrice(optimal_sum_value, prime_sum_value) ==
    optimal_sum_value - prime_sum_value

(* lines 39-53: the solve over all tasks, and what is saved of it.         *)
FixedVcgOptimalSolve ==
    /\ algorithm = "fixed_vcg"
    /\ pc = "start"
    /\ \E r \in {branch_bound_algorithm(AllIds, task_state, server_state, NoBudget)} :
       \E allocated \in {AllocatedIn(AllIds, r.task_state)} :
          /\ task_state' = r.task_state
          /\ server_state' = r.server_state
          /\ IF r.none
             THEN VcgFail /\ vcg' = [phase |-> "failed"]
             ELSE /\ pc' = "loop"
                  /\ result' = result
                  /\ vcg' = [phase |-> "loop",
                             optimal_social_welfare |-> r.sum_value,
                             allocated_tasks |-> allocated,
                             task_allocation |->
                                 [i \in TaskIds |->
                                     [loading_speed |-> RestoreSpeed,
                                      compute_speed |-> RestoreSpeed,
                                      sending_speed |-> RestoreSpeed,
                                      running_server |-> r.task_state[i].running_server]],
                             task_prices |-> << >>,
                             next |-> 1,
                             optimal_tasks |-> r.task_state,
                             optimal_servers |-> r.server_state,
                             prime |-> << >>]
    /\ UNCHANGED <<greedy, workers, driver, algorithm, time_limits_hit, node_budget, tasks, servers, unallocated_jobs, iterations, matrix_policy>>

(* lines 56-70: one iteration of the loop over allocated_tasks.            *)
FixedVcgPrimeSolve ==
    /\ algorithm = "fixed_vcg"
    /\ pc = "loop"
    /\ vcg.next <= Len(vcg.allocated_tasks)
    /\ \E task \in {vcg.allocated_tasks[vcg.next]} :
       \E tstate \in {ResetTasks(tasks)} :
       \E sstate \in {ResetServers(servers)} :
       \E tasks_prime \in {list_copy_remove(AllIds, task)} :
       \E r \in {branch_bound_algorithm(tasks_prime, tstate, sstate, NoBudget)} :
          /\ task_state' = r.task_state
          /\ server_state' = r.server_state
          /\ IF r.none
             THEN VcgFail /\ vcg' = [vcg EXCEPT !.phase = "failed"]
             ELSE /\ pc' = "loop"
                  /\ result' = result
                  /\ vcg' = [vcg EXCEPT
                         !.task_prices =
                             SetPrice(@, task,
                                 FixedVcgPrice(vcg.optimal_social_welfare, r.sum_value)),
                         !.prime =
                             SetPrice(@, task,
                                 PrimeRecord(tasks_prime, tstate, sstate, r.sum_value)),
                         !.next = @ + 1]
    /\ UNCHANGED <<greedy, workers, driver, algorithm, time_limits_hit, node_budget, tasks, servers, unallocated_jobs, iterations, matrix_policy>>

(* lines 72-77: reset, allocate(task, -1, -1, -1, server, price), Result.  *)
FixedVcgRestore ==
    /\ algorithm = "fixed_vcg"
    /\ pc = "loop"
    /\ vcg.next > Len(vcg.allocated_tasks)
    /\ \E r \in {RestoreAll(vcg.allocated_tasks, vcg.task_allocation, vcg.task_prices,
                            ResetTasks(tasks), ResetServers(servers))} :
          /\ task_state' = r.task_state
          /\ server_state' = r.server_state
          /\ result' = [algorithm |-> "Fixed VCG",
                        value |-> ResultValue(AllIds, r.task_state)]
    /\ pc' = "done"
    /\ vcg' = [vcg EXCEPT !.phase = "done"]
    /\ UNCHANGED <<greedy, workers, driver, algorithm, time_limits_hit, node_budget, tasks, servers, unallocated_jobs, iterations, matrix_policy>>

InitInstance ==
    /\ tasks \in TaskLists
    /\ servers \in ServerLists
    /\ task_state = ResetTasks(tasks)
    /\ server_state = ResetServers(servers)
    /\ iterations = 0
    /\ vcg = NoVcg
    /\ time_limits_hit = 0
    /\ result = NoResult

InitGreedy ==
    /\ algorithm = "matrix_greedy"
    /\ driver = NoDriver
    /\ workers = NoWorkers
    /\ greedy = NoGreedy
    /\ InitInstance
    /\ pc = "loop"
    /\ unallocated_jobs = AllIds
    /\ matrix_policy \in Policies
    /\ node_budget = NoBudget

InitFixed ==
    /\ algorithm \in {"fixed_optimal", "vcg", "fixed_vcg"}
    /\ driver = NoDriver
    /\ workers = NoWorkers
    /\ greedy = NoGreedy
    /\ InitInstance
    /\ pc = "start"
    /\ unallocated_jobs = << >>
    /\ matrix_policy = "none"
    /\ node_budget = NoBudget

InitBranchBound ==
    /\ algorithm = "branch_bound"
    /\ driver = NoDriver
    /\ workers = NoWorkers
    /\ greedy = NoGreedy
    /\ InitInstance
    /\ pc = "start"
    /\ unallocated_jobs = << >>
    /\ matrix_policy = "none"
    /\ node_budget \in {NoBudget} \cup 1..MaxNodes

Init == InitGreedy \/ InitFixed \/ InitBranchBound

Next ==
    \/ MatrixGreedyIteration
    \/ MatrixGreedyReturn
    \/ FixedOptimalRun
    \/ BranchBoundRun
    \/ VcgOptimalSolve
    \/ VcgPrimeSolve
    \/ VcgRestore
    \/ FixedVcgOptimalSolve
    \/ FixedVcgPrimeSolve
    \/ FixedVcgRestore

Spec == Init /\ [][Next]_vars

(* ------------------------ the evaluation drivers ----------------------- *)
(* auction_testing.py line 20 *)
price_changes == <<1, 2, 3, 5, 7, 10>>

(* A run whose algorithm is not modelled here (iterative_auction, the      *)
(* flexible and the relaxed optimal, greedy_algorithm) mutates allocation  *)
(* fields only: it is modelled by the states it may leave, the commit of   *)
(* any capacity-feasible assignment onto the state it was handed.          *)
RunLeaves(tstate, sstate) ==
    { AllocateSolution(AllIds, 1, a, tstate, sstate) : a \in FixedSolutions(AllIds) }

(* A driver's locals.  run_since_reset tells whether a run was made on the *)
(* instance since it was created or last reset; run_start keeps, of the    *)
(* latest run, that flag and whether the state the run was handed is the   *)
(* one reset_model leaves.                                                 *)
DriverLocals(name) ==
    [name |-> name, pos |-> "create", repeat |-> 0, index |-> 0, price_change |-> 0,
     run_since_reset |-> FALSE, run_start |-> << >>]

(* a call of an algorithm on the state handed in *)
StartRun(d, tstate, sstate) ==
    [d EXCEPT !.run_start = <<[run_since_reset |-> d.run_since_reset,
                               is_reset |-> IsReset(tstate, sstate)]>>,
              !.run_since_reset = TRUE]

(* a call of reset_model *)
DriverReset(d) == [d EXCEPT !.run_since_reset = FALSE]

(* ---- single_price_itreative_auction (auction_testing.py) ---- *)
(* lines 24-26: the next repeat creates its jobs and servers.              *)
SinglePriceCreate ==
    /\ driver.name = "single_price_itreative_auction"
    /\ driver.pos = "create"
    /\ driver.repeat < MaxRepeats
    /\ tasks' \in TaskLists
    /\ servers' \in ServerLists
    /\ task_state' = ResetTasks(tasks')
    /\ server_state' = ResetServers(servers')
    /\ driver' = [driver EXCEPT !.pos = "vcg_auction", !.repeat = @ + 1, !.index = 0,
                                !.price_change = 0, !.run_since_reset = FALSE,
                                !.run_start = << >>]
    /\ algorithm' = "none"
    /\ vcg' = NoVcg
    /\ result' = NoResult
    /\ time_limits_hit' = 0
    /\ UNCHANGED <<greedy, workers, pc, unallocated_jobs, iterations, matrix_policy, node_budget>>

(* line 28: the call of vcg_auction; its steps are those of vcg_solver.    *)
SinglePriceVcgAuction ==
    /\ driver.name = "single_price_itreative_auction"
    /\ driver.pos = "vcg_auction"
    /\ algorithm = "none"
    /\ algorithm' = "vcg"
    /\ pc' = "start"
    /\ driver' = StartRun(driver, task_state, server_state)
    /\ UNCHANGED <<greedy, workers, tasks, servers, task_state, server_state, unallocated_jobs, iterations,
                   matrix_policy, vcg, time_limits_hit, node_budget, result>>

(* lines 29-33: no result, continue with the next repeat; a result, keep   *)
(* its sums in results and reset the model.  vcg_result and the locals of  *)
(* the call are not read again.                                            *)
SinglePriceVcgResult ==
    /\ driver.name = "single_price_itreative_auction"
    /\ driver.pos = "vcg_auction"
    /\ algorithm = "vcg"
    /\ pc = "done"
    /\ IF result = ResultNone
       THEN /\ driver' = [driver EXCEPT !.pos = "create"]
            /\ UNCHANGED <<task_state, server_state>>
       ELSE /\ driver' = [DriverReset(driver) EXCEPT !.pos = "price_changes", !.index = 1]
            /\ task_state' = ResetTasks(tasks)
            /\ server_state' = ResetServers(servers)
    /\ algorithm' = "none"
    /\ vcg' = NoVcg
    /\ result' = NoResult
    /\ time_limits_hit' = 0
    /\ UNCHANGED <<greedy, workers, tasks, servers, pc, unallocated_jobs, iterations, matrix_policy,
                   node_budget>>

(* lines 35-46: one body of the loop over price_changes.  A failed         *)
(* iterative_auction continues with the next price change, past the        *)
(* reset_model of line 46.                                                 *)
SinglePriceIterativeAuction ==
    /\ driver.name = "single_price_itreative_auction"
    /\ driver.pos = "price_changes"
    /\ driver.index <= Len(price_changes)
    /\ \E left \in RunLeaves(task_state, server_state) :
       \E iterative_result_is_none \in BOOLEAN :
       \E d \in {[StartRun(driver, task_state, server_state) EXCEPT
                     !.price_change = price_changes[driver.index], !.index = @ + 1]} :
          IF iterative_result_is_none
          THEN /\ task_state' = left.task_state
               /\ server_state' = left.server_state
               /\ driver' = d
          ELSE /\ task_state' = ResetTasks(tasks)
               /\ server_state' = ResetServers(servers)
               /\ driver' = DriverReset(d)
    /\ UNCHANGED <<greedy, workers, algorithm, tasks, servers, pc, unallocated_jobs, iterations, matrix_policy,
                   vcg, time_limits_hit, node_budget, result>>

(* line 49: data.append(results), and on to the next repeat.               *)
SinglePriceAppend ==
    /\ driver.name = "single_price_itreative_auction"
    /\ driver.pos = "price_changes"
    /\ driver.index > Len(price_changes)
    /\ driver' = [driver EXCEPT !.pos = "create"]
    /\ UNCHANGED <<greedy, workers, algorithm, tasks, servers, task_state, server_state, pc, unallocated_jobs,
                   iterations, matrix_policy, vcg, time_limits_hit, node_budget, result>>

(* ---- greedy_evaluation (evaluation/greedy.py) ---- *)
(* lines 42-50: the next repeat generates its tasks and servers; the fixed *)
(* tasks are the tasks with their fixed speeds.                            *)
GreedyEvaluationGenerate ==
    /\ driver.name = "greedy_evaluation"
    /\ driver.pos = "create"
    /\ driver.repeat < MaxRepeats
    /\ tasks' \in TaskLists
    /\ servers' \in ServerLists
    /\ task_state' = ResetTasks(tasks')
    /\ server_state' = ResetServers(servers')
    /\ driver' = [driver EXCEPT !.pos = "flexible_optimal", !.repeat = @ + 1, !.index = 0,
                                !.run_since_reset = FALSE, !.run_start = << >>]
    /\ time_limits_hit' = 0
    /\ result' = NoResult
    /\ UNCHANGED <<greedy, workers, algorithm, pc, unallocated_jobs, iterations, matrix_policy, vcg, node_budget>>

(* lines 53-56 and 65-68: flexible_optimal, then relaxed_flexible.  The    *)
(* result's fields are read without a check: None raises AttributeError    *)
(* and the driver ends there.                                              *)
GreedyEvaluationOptimal ==
    /\ driver.name = "greedy_evaluation"
    /\ driver.pos \in {"flexible_optimal", "relaxed_flexible"}
    /\ \E left \in RunLeaves(task_state, server_state) :
       \E result_is_none \in BOOLEAN :
       \E d \in {StartRun(driver, task_state, server_state)} :
          IF result_is_none
          THEN /\ task_state' = left.task_state
               /\ server_state' = left.server_state
               /\ driver' = [d EXCEPT !.pos = "raised"]
          ELSE /\ task_state' = ResetTasks(tasks)
               /\ server_state' = ResetServers(servers)
               /\ driver' = [DriverReset(d) EXCEPT
                               !.pos = IF driver.pos = "flexible_optimal"
                                       THEN "fixed_optimal" ELSE "greedy",
                               !.index = 1]
    /\ UNCHANGED <<greedy, workers, algorithm, tasks, servers, pc, unallocated_jobs, iterations, matrix_policy,
                   vcg, time_limits_hit, node_budget, result>>

(* lines 59-62: fixed_optimal over the fixed tasks, then reset_model.      *)
GreedyEvaluationFixedOptimal ==
    /\ driver.name = "greedy_evaluation"
    /\ driver.pos = "fixed_optimal"
    /\ \E outcome \in SolveOutcomes(AllIds) :
       \E r \in {fixed_optimal_algorithm(AllIds, outcome, task_state, server_state)} :
       \E d \in {StartRun(driver, task_state, server_state)} :
          /\ time_limits_hit' = time_limits_hit + IF TimeLimitHit(outcome) THEN 1 ELSE 0
          /\ IF r.none
             THEN /\ task_state' = r.task_state
                  /\ server_state' = r.server_state
                  /\ result' = ResultNone
                  /\ driver' = [d EXCEPT !.pos = "raised"]
             ELSE /\ task_state' = ResetTasks(tasks)
                  /\ server_state' = ResetServers(servers)
                  /\ result' = [algorithm |-> "Fixed Optimal",
                                value |-> r.social_welfare, status |-> r.status]
                  /\ driver' = [DriverReset(d) EXCEPT !.pos = "relaxed_flexible"]
    /\ UNCHANGED <<greedy, workers, algorithm, tasks, servers, pc, unallocated_jobs, iterations, matrix_policy,
                   vcg, node_budget>>

(* lines 71-78: one greedy_algorithm run of the loops over the policies,   *)
(* then reset_model; a greedy run always returns a Result.                 *)
GreedyEvaluationGreedy ==
    /\ driver.name = "greedy_evaluation"
    /\ driver.pos = "greedy"
    /\ driver.index <= MaxPolicies
    /\ \E left \in RunLeaves(task_state, server_state) :
          /\ task_state' = ResetTasks(tasks)
          /\ server_state' = ResetServers(servers)
          /\ result' = [algorithm |-> "Greedy",
                        value |-> ResultValue(AllIds, left.task_state), status |-> "optimal"]
    /\ driver' = [DriverReset(StartRun(driver, task_state, server_state)) EXCEPT
                     !.index = @ + 1]
    /\ UNCHANGED <<greedy, workers, algorithm, tasks, servers, pc, unallocated_jobs, iterations, matrix_policy,
                   vcg, time_limits_hit, node_budget>>

(* lines 80-85: the repeat's results are saved, and on to the next repeat. *)
GreedyEvaluationSave ==
    /\ driver.name = "greedy_evaluation"
    /\ driver.pos = "greedy"
    /\ driver.index > MaxPolicies
    /\ driver' = [driver EXCEPT !.pos = "create"]
    /\ UNCHANGED <<greedy, workers, algorithm, tasks, servers, task_state, server_state, pc, unallocated_jobs,
                   iterations, matrix_policy, vcg, time_limits_hit, node_budget, result>>

(* A driver before its first repeat: no instance yet.                      *)
InitDriver ==
    /\ driver \in { DriverLocals(name) :
                      name \in {"single_price_itreative_auction", "greedy_evaluation"} }
    /\ workers = NoWorkers
    /\ greedy = NoGreedy
    /\ algorithm = "none"
    /\ tasks = << >>
    /\ servers = << >>
    /\ task_state = << >>
    /\ server_state = << >>
    /\ pc = "done"
    /\ unallocated_jobs = << >>
    /\ iterations = 0
    /\ matrix_policy = "none"
    /\ vcg = NoVcg
    /\ time_limits_hit = 0
    /\ node_budget = NoBudget
    /\ result = NoResult

NextDriver ==
    \/ SinglePriceCreate
    \/ SinglePriceVcgAuction
    \/ VcgOptimalSolve
    \/ VcgPrimeSolve
    \/ VcgRestore
    \/ SinglePriceVcgResult
    \/ SinglePriceIterativeAuction
    \/ SinglePriceAppend
    \/ GreedyEvaluationGenerate
    \/ GreedyEvaluationOptimal
    \/ GreedyEvaluationFixedOptimal
    \/ GreedyEvaluationGreedy
    \/ GreedyEvaluationSave

SpecDriver == InitDriver /\ [][NextDriver]_vars

(* ---- mutated_iterative_auction (auction_testing.py) ---- *)
(* job.mutate(mutate_percent), server.mutate(mutate_percent): a new object *)
(* whose static fields differ from those of the one it is made from.       *)
MutantJobs(job) == { FixedTask(t) : t \in TaskTypes } \ {job}

MutantServers(sv) == ServerTypes \ {sv}

(* list.remove(x) followed by list.append(y), y taking the place of x in   *)
(* the model's numbering of the objects of the list                        *)
RemoveAppend(list, x) == RemoveAt(list, PositionOf(list, x)) \o <<x>>

(* The locals of mutated_iterative_auction.  jobs and servers are the two  *)
(* lists in their order, of the numbers under which tasks, servers and the *)
(* allocation state hold their objects; mutant_jobs and mutant_servers are *)
(* the numbers that stand for a mutant at present, mutated the pair last   *)
(* taken off a list and what was put on it.                                *)
MutatedLocals ==
    [name |-> "mutated_iterative_auction", pos |-> "iterative_auction", index |-> 0,
     jobs |-> AllIds, servers |-> [k \in ServerIds |-> k],
     mutant_jobs |-> {}, mutant_servers |-> {},
     mutated |-> [kind |-> "none"]]

(* line 107: jobs, servers = model_dist.create()                           *)
InitMutated ==
    /\ algorithm = "none"
    /\ InitInstance
    /\ tasks # << >>
    /\ driver = MutatedLocals
    /\ pc = "start"
    /\ unallocated_jobs = << >>
    /\ matrix_policy = "none"
    /\ node_budget = NoBudget
    /\ workers = NoWorkers
    /\ greedy = NoGreedy

(* lines 110-119: the auction over the instance as created; no result,     *)
(* continue with the next repeat; a result, reset_model.                   *)
MutatedNoMutation ==
    /\ driver.name = "mutated_iterative_auction"
    /\ driver.pos = "iterative_auction"
    /\ \E left \in RunLeaves(task_state, server_state) :
       \E iterative_results_is_none \in BOOLEAN :
          IF iterative_results_is_none
          THEN /\ task_state' = left.task_state
               /\ server_state' = left.server_state
               /\ driver' = [driver EXCEPT !.pos = "next repeat"]
          ELSE /\ task_state' = ResetTasks(tasks)
               /\ server_state' = ResetServers(servers)
               /\ driver' = [driver EXCEPT !.pos = "mutate"]
    /\ UNCHANGED <<greedy, workers, algorithm, tasks, servers, pc, unallocated_jobs, iterations,
                   matrix_policy, vcg, time_limits_hit, node_budget, result>>

(* lines 122-127: a job of the list is chosen, its mutant made, the job    *)
(* removed from the list and the mutant appended.                          *)
MutateJob ==
    /\ driver.name = "mutated_iterative_auction"
    /\ driver.pos = "mutate"
    /\ driver.index < MaxMutateRepeats
    /\ \E mutated_job \in Range(driver.jobs) :
       \E mutant_job \in MutantJobs(tasks[mutated_job]) :
          /\ tasks' = [tasks EXCEPT ![mutated_job] = mutant_job]
          /\ task_state' = [task_state EXCEPT ![mutated_job] = UnallocatedTask]
          /\ driver' = [driver EXCEPT
                 !.pos = "mutated auction",
                 !.jobs = RemoveAppend(@, mutated_job),
                 !.mutant_jobs = @ \cup {mutated_job},
                 !.mutated = [kind |-> "job", number |-> mutated_job,
                              object |-> tasks[mutated_job],
                              was_mutant |-> mutated_job \in driver.mutant_jobs]]
    /\ UNCHANGED <<greedy, workers, algorithm, servers, server_state, pc, unallocated_jobs,
                   iterations, matrix_policy, vcg, time_limits_hit, node_budget, result>>

(* lines 142-146: the same for a server.                                   *)
MutateServer ==
    /\ driver.name = "mutated_iterative_auction"
    /\ driver.pos = "mutate"
    /\ driver.index < MaxMutateRepeats
    /\ \E mutated_server \in Range(driver.servers) :
       \E mutant_server \in MutantServers(servers[mutated_server]) :
          /\ servers' = [servers EXCEPT ![mutated_server] = mutant_server]
          /\ server_state' = [server_state EXCEPT ![mutated_server] = FullServer(mutant_server)]
          /\ driver' = [driver EXCEPT
                 !.pos = "mutated auction",
                 !.servers = RemoveAppend(@, mutated_server),
                 !.mutant_servers = @ \cup {mutated_server},
                 !.mutated = [kind |-> "server", number |-> mutated_server,
                              object |-> servers[mutated_server],
                              was_mutant |-> mutated_server \in driver.mutant_servers]]
    /\ UNCHANGED <<greedy, workers, algorithm, tasks, task_state, pc, unallocated_jobs,
                   iterations, matrix_policy, vcg, time_limits_hit, node_budget, result>>

(* lines 129-140 and 148-159: the auction over the mutated instance; no    *)
(* result, continue with the next mutation; a result, the mutant removed   *)
(* from its list, what it replaced appended, and reset_model.              *)
MutatedAuction ==
    /\ driver.name = "mutated_iterative_auction"
    /\ driver.pos = "mutated auction"
    /\ \E left \in RunLeaves(task_state, server_state) :
       \E iterative_results_is_none \in BOOLEAN :
          IF iterative_results_is_none
          THEN /\ task_state' = left.task_state
               /\ server_state' = left.server_state
               /\ UNCHANGED <<tasks, servers>>
               /\ driver' = [driver EXCEPT !.pos = "mutate", !.index = @ + 1,
                                           !.mutated = [kind |-> "none"]]
          ELSE \E m \in {driver.mutated} :
               \E restored_tasks \in {IF m.kind = "job"
                                      THEN [tasks EXCEPT ![m.number] = m.object]
                                      ELSE tasks} :
               \E restored_servers \in {IF m.kind = "server"
                                        THEN [servers EXCEPT ![m.number] = m.object]
                                        ELSE servers} :
                  /\ tasks' = restored_tasks
                  /\ servers' = restored_servers
                  /\ task_state' = ResetTasks(restored_tasks)
                  /\ server_state' = ResetServers(restored_servers)
                  /\ driver' = [driver EXCEPT
                         !.pos = "mutate", !.index = @ + 1,
                         !.jobs = IF m.kind = "job" THEN RemoveAppend(@, m.number) ELSE @,
                         !.servers = IF m.kind = "server" THEN RemoveAppend(@, m.number) ELSE @,
                         !.mutant_jobs = IF m.kind = "job" /\ ~m.was_mutant
                                         THEN @ \ {m.number} ELSE @,
                         !.mutant_servers = IF m.kind = "server" /\ ~m.was_mutant
                                            THEN @ \ {m.number} ELSE @,
                         !.mutated = [kind |-> "none"]]
    /\ UNCHANGED <<greedy, workers, algorithm, pc, unallocated_jobs, iterations, matrix_policy,
                   vcg, time_limits_hit, node_budget, result>>

(* the loop of line 121 has made its mutate_repeats passes                 *)
MutatedNextRepeat ==
    /\ driver.name = "mutated_iterative_auction"
    /\ driver.pos = "mutate"
    /\ driver.index >= MaxMutateRepeats
    /\ driver' = [driver EXCEPT !.pos = "next repeat"]
    /\ UNCHANGED <<greedy, workers, algorithm, tasks, servers, task_state, server_state, pc,
                   unallocated_jobs, iterations, matrix_policy, vcg, time_limits_hit,
                   node_budget, result>>

NextMutated ==
    \/ MutatedNoMutation
    \/ MutateJob
    \/ MutateServer
    \/ MutatedAuction
    \/ MutatedNextRepeat

SpecMutated == InitMutated /\ [][NextMutated]_vars

(* ------------- branch and bound over several workers ------------------- *)
(* The subtrees below the root are handed to workers that share the best   *)
(* value found.  A worker prunes with the copy of that value it last read. *)
WorkerIds == 1..MaxWorkers

(* the root of the search: nothing decided, every server as it stands *)
RootNode(ids, sstate) ==
    [pos |-> 1, a |-> [i \in Range(ids) |-> None], rem |-> sstate, acc |-> 0]

(* The children of a node from server j on: one per server that can still  *)
(* host ids[pos], in server order, then "leave unallocated".               *)
RECURSIVE ChildNodes(_, _, _)
ChildNodes(ids, n, j) ==
    IF j > Len(servers)
    THEN <<[n EXCEPT !.pos = @ + 1]>>
    ELSE LET i == ids[n.pos]
             f == FixedSpeeds(tasks[i])
         IN  IF fixed_feasible_allocation(n.rem[j], i)
             THEN <<[pos |-> n.pos + 1, a |-> [n.a EXCEPT ![i] = j],
                     rem |-> ServerAllocate(n.rem, tasks, i, f.loading_speed,
                                            f.compute_speed, f.sending_speed, j),
                     acc |-> n.acc + tasks[i].value]>> \o ChildNodes(ids, n, j + 1)
             ELSE ChildNodes(ids, n, j + 1)

(* the independent subtrees: the children of the root, or the root itself  *)
(* when it is a leaf                                                       *)
Subtrees(ids, sstate) ==
    IF ids = << >> THEN {RootNode(ids, sstate)}
    ELSE Range(ChildNodes(ids, RootNode(ids, sstate), 1))

(* the plain write of a found leaf over the shared best *)
ImproveBestOverwrite(best, found) == found

(* Incumbent update on the shared best: a leaf exceeding it replaces it,   *)
(* in one atomic step.                                                     *)
ImproveBest(best, found) ==
    IF found.value > best.value THEN found ELSE best

(* an idle worker: empty stack and its copy of the shared best value *)
IdleWorker == [stack |-> << >>, seen |-> 0]

InitWorkers ==
    /\ algorithm = "branch_bound_workers"
    /\ driver = NoDriver
    /\ InitInstance
    /\ pc = "start"
    /\ unallocated_jobs = << >>
    /\ matrix_policy = "none"
    /\ node_budget = NoBudget
    /\ greedy = NoGreedy
    /\ workers = [phase |-> "search",
                  pool |-> Subtrees(AllIds, server_state),
                  best |-> [value |-> 0, solution |-> [i \in TaskIds |-> None]],
                  worker |-> [w \in WorkerIds |-> IdleWorker],
                  stale_branch |-> FALSE]

(* an idle worker takes one of the subtrees not yet taken *)
WorkerTake(w) ==
    /\ workers.phase = "search"
    /\ workers.worker[w].stack = << >>
    /\ \E n \in workers.pool :
          workers' = [workers EXCEPT !.pool = @ \ {n}, !.worker[w].stack = <<n>>]
    /\ UNCHANGED <<greedy, algorithm, tasks, servers, task_state, server_state, pc, unallocated_jobs,
                   iterations, matrix_policy, vcg, time_limits_hit, node_budget, result, driver>>

(* A worker decides the node on top of its stack, with its copy of the     *)
(* shared best value as it is or read anew: a leaf is offered to the       *)
(* shared best; another node is pruned when its bound is <= the copy, and  *)
(* branched otherwise.  stale_branch records a node branched that the      *)
(* shared value would have pruned.                                         *)
WorkerStep(w) ==
    /\ workers.phase = "search"
    /\ workers.worker[w].stack # << >>
    /\ \E n \in {Head(workers.worker[w].stack)} :
       \E rest \in {Tail(workers.worker[w].stack)} :
       \E seen \in {workers.worker[w].seen, workers.best.value} :
          IF n.pos > Len(tasks)
          THEN workers' = [workers EXCEPT
                              !.best = ImproveBest(@, [value |-> n.acc, solution |-> n.a]),
                              !.worker[w] = [stack |-> rest, seen |-> seen]]
          ELSE \E bound \in {UpperBound(AllIds, n.pos, n.acc)} :
                  workers' = [workers EXCEPT
                      !.worker[w] =
                          [stack |-> IF Prune(bound, seen) THEN rest
                                     ELSE ChildNodes(AllIds, n, 1) \o rest,
                           seen |-> seen],
                      !.stale_branch =
                          @ \/ (~Prune(bound, seen) /\ Prune(bound, workers.best.value))]
    /\ UNCHANGED <<greedy, algorithm, tasks, servers, task_state, server_state, pc, unallocated_jobs,
                   iterations, matrix_policy, vcg, time_limits_hit, node_budget, result, driver>>

(* every subtree searched: the shared best is committed and returned *)
WorkersReturn ==
    /\ workers.phase = "search"
    /\ workers.pool = {}
    /\ \A w \in WorkerIds : workers.worker[w].stack = << >>
    /\ \E done \in {AllocateSolution(AllIds, 1, workers.best.solution,
                                     task_state, server_state)} :
          /\ task_state' = done.task_state
          /\ server_state' = done.server_state
          /\ result' = [algorithm |-> "Branch Bound",
                        value |-> ResultValue(AllIds, done.task_state),
                        status |-> "optimal", pruned |-> 0]
    /\ workers' = [workers EXCEPT !.phase = "done"]
    /\ pc' = "done"
    /\ UNCHANGED <<greedy, algorithm, tasks, servers, unallocated_jobs, iterations, matrix_policy,
                   vcg, time_limits_hit, node_budget, driver>>

NextWorkers ==
    \/ \E w \in WorkerIds : WorkerTake(w)
    \/ \E w \in WorkerIds : WorkerStep(w)
    \/ WorkersReturn

SpecWorkers == InitWorkers /\ [][NextWorkers]_vars

(* --------------------------- the Greedy Engine ------------------------- *)
(* The policy set: a ValueDensity, a ServerSelection and a                 *)
(* ResourceAllocation, each one of a few named strategies.                 *)
ValueDensities == {"value/required_storage", "value/deadline", "value/demand"}

ServerSelections == {"most available", "least available"}

ResourceAllocations == {"minimize footprint", "maximize headroom"}

(* ValueDensity(task) -> score, kept as a fraction                         *)
value_density(policy, job) ==
    [num |-> job.value,
     den |-> CASE policy = "value/required_storage" -> job.required_storage
               [] policy = "value/deadline" -> job.deadline
               [] OTHER -> job.required_storage + job.required_computation
                               + job.required_results_data]

(* score a is greater than score b *)
Denser(a, b) == a.num * b.den > b.num * a.den

(* a pick of the last of the tasks of maximal score                        *)
PickLatest(policy, unalloc) ==
    CHOOSE i \in Range(unalloc) :
        \A u \in Range(unalloc) :
            \/ Denser(value_density(policy, tasks[i]), value_density(policy, tasks[u]))
            \/ /\ ~Denser(value_density(policy, tasks[u]), value_density(policy, tasks[i]))
               /\ u <= i

(* step 2: the task of maximal score, ties broken by the original order    *)
Pick(policy, unalloc) ==
    CHOOSE i \in Range(unalloc) :
        \A u \in Range(unalloc) :
            \/ Denser(value_density(policy, tasks[i]), value_density(policy, tasks[u]))
            \/ /\ ~Denser(value_density(policy, tasks[u]), value_density(policy, tasks[i]))
               /\ i <= u

(* step 3: the servers that can host the task                              *)
Candidates(sstate, i) == { j \in ServerIds : can_run(sstate[j], tasks[i]) }

(* what a server has available, summed over its resources                  *)
Available(sv) == sv.available_storage + sv.available_computation + sv.available_bandwidth

(* step 4: ServerSelection(task, candidates) -> server, the first of the   *)
(* best in server order                                                    *)
server_selection(policy, sstate, candidates) ==
    CHOOSE j \in candidates :
        \A k \in candidates :
            IF policy = "most available"
            THEN \/ Available(sstate[j]) > Available(sstate[k])
                 \/ Available(sstate[j]) = Available(sstate[k]) /\ j <= k
            ELSE \/ Available(sstate[j]) < Available(sstate[k])
                 \/ Available(sstate[j]) = Available(sstate[k]) /\ j <= k

(* the objective a ResourceAllocation policy hands to best_speed_triple    *)
objective(policy, sv, t) ==
    IF policy = "minimize footprint"
    THEN 0 - (t[1] + t[2] + t[3])
    ELSE LET c == sv.available_computation - t[2]
             b == sv.available_bandwidth - (t[1] + t[3])
         IN  IF c < b THEN c ELSE b

(* best_speed_triple(task, server, objective): the first, in s, w, r       *)
(* order, of the admissible triples of maximal objective                   *)
best_speed_triple(job, sv, policy) ==
    LET triples == SpeedTriples(job, sv.available_bandwidth, sv.available_computation)
        top == Max({ objective(policy, sv, t) : t \in triples })
        tops == { t \in triples : objective(policy, sv, t) = top }
    IN  CHOOSE t \in tops : \A u \in tops : TripleBefore(t, u)

InitGreedyAlgorithm ==
    /\ algorithm = "greedy"
    /\ driver = NoDriver
    /\ InitInstance
    /\ pc = "loop"
    /\ unallocated_jobs = AllIds
    /\ matrix_policy = "none"
    /\ node_budget = NoBudget
    /\ workers = NoWorkers
    /\ \E vd \in ValueDensities : \E ss \in ServerSelections : \E ra \in ResourceAllocations :
          greedy = [phase |-> "run", value_density |-> vd, server_selection |-> ss,
                    resource_allocation |-> ra, dropped |-> {}]

(* One iteration of the loop, steps 1 to 6.                                *)
GreedyAlgorithmIteration ==
    /\ algorithm = "greedy"
    /\ pc = "loop"
    /\ unallocated_jobs # << >>
    /\ \E i \in {Pick(greedy.value_density, unallocated_jobs)} :
       \E candidates \in {Candidates(server_state, i)} :
          /\ unallocated_jobs' = RemoveAt(unallocated_jobs, PositionOf(unallocated_jobs, i))
          /\ IF candidates = {}
             THEN /\ greedy' = [greedy EXCEPT !.dropped = @ \cup {i}]
                  /\ UNCHANGED <<task_state, server_state>>
             ELSE \E j \in {server_selection(greedy.server_selection, server_state, candidates)} :
                  \E t \in {best_speed_triple(tasks[i], server_state[j],
                                              greedy.resource_allocation)} :
                      /\ task_state' = TaskAllocate(task_state, i, t[1], t[2], t[3], j, NoPrice)
                      /\ server_state' = ServerAllocate(server_state, tasks, i,
                                                        t[1], t[2], t[3], j)
                      /\ greedy' = greedy
    /\ iterations' = iterations + 1
    /\ UNCHANGED <<workers, driver, algorithm, pc, time_limits_hit, node_budget, tasks, servers,
                   matrix_policy, vcg, result>>

(* the unallocated set is empty: the result is returned                    *)
GreedyAlgorithmReturn ==
    /\ algorithm = "greedy"
    /\ pc = "loop"
    /\ unallocated_jobs = << >>
    /\ pc' = "done"
    /\ greedy' = [greedy EXCEPT !.phase = "done"]
    /\ result' = [algorithm |-> "Greedy", value |-> SocialWelfare(task_state),
                  status |-> "optimal"]
    /\ UNCHANGED <<workers, driver, algorithm, time_limits_hit, node_budget, tasks, servers,
                   task_state, server_state, unallocated_jobs, iterations, matrix_policy, vcg>>

NextGreedy == GreedyAlgorithmIteration \/ GreedyAlgorithmReturn

SpecGreedy == InitGreedyAlgorithm /\ [][NextGreedy]_vars

(* the greedy runs: matrix_greedy and the Greedy Engine                    *)
InitGreedyRuns == InitGreedy \/ InitGreedyAlgorithm

NextGreedyRuns ==
    \/ MatrixGreedyIteration
    \/ MatrixGreedyReturn
    \/ GreedyAlgorithmIteration
    \/ GreedyAlgorithmReturn

SpecGreedyRuns == InitGreedyRuns /\ [][NextGreedyRuns]_vars

(* ============================== claims ================================= *)
(* the speeds and storage the tasks allocated to a server take of it       *)
AllocStorage(i) == tasks[i].required_storage

AllocCompute(i) == task_state[i].compute_speed

AllocBandwidth(i) == task_state[i].loading_speed + task_state[i].sending_speed

(* C1: on every server, after any commit, the allocated tasks' storage,    *)
(* compute speeds and loading + sending speeds sum to at most the server's *)
(* storage, computation and bandwidth capacity.                            *)
C1_CapacityRespected ==
    \A j \in ServerIds :
        /\ SumOver(AllocStorage, server_state[j].allocated_tasks)
               <= servers[j].storage_capacity
        /\ SumOver(AllocCompute, server_state[j].allocated_tasks)
               <= servers[j].computation_capacity
        /\ SumOver(AllocBandwidth, server_state[j].allocated_tasks)
               <= servers[j].bandwidth_capacity

(* a greedy run has put two jobs on one server and used up its bandwidth   *)
C1_Witness ==
    /\ algorithm = "matrix_greedy"
    /\ pc = "done"
    /\ \E j \in ServerIds :
          /\ Cardinality(server_state[j].allocated_tasks) = 2
          /\ SumOver(AllocBandwidth, server_state[j].allocated_tasks)
                 = servers[j].bandwidth_capacity

(* C2: every task with a running server has speeds >= 1 that meet its      *)
(* deadline, in every state a run leaves behind.                           *)
C2_DeadlineMet ==
    pc = "done" =>
        \A i \in TaskIds :
            task_state[i].running_server # None =>
                /\ task_state[i].loading_speed >= 1
                /\ task_state[i].compute_speed >= 1
                /\ task_state[i].sending_speed >= 1
                /\ DeadlineMet(tasks[i], task_state[i].loading_speed,
                               task_state[i].compute_speed, task_state[i].sending_speed)

(* the greatest value of a capacity-feasible assignment of the tasks ids   *)
BruteForceMax(ids) == MaxObjective(FixedSolutions(ids))

(* C3: a branch and bound search that runs to completion returns the       *)
(* greatest summed value over all capacity-feasible assignments: the       *)
(* search on its own, the full solve of fixed_vcg_auction and each of its  *)
(* re-solves.                                                              *)
C3_BranchBoundOptimal ==
    /\ (algorithm = "branch_bound" /\ pc = "done" /\ result.status = "optimal")
           => result.value = BruteForceMax(AllIds)
    /\ (algorithm = "fixed_vcg" /\ vcg.phase \in {"loop", "done"})
           => /\ vcg.optimal_social_welfare = BruteForceMax(AllIds)
              /\ \A t \in DOMAIN vcg.prime :
                     vcg.prime[t].social_welfare
                         = BruteForceMax(list_copy_remove(AllIds, t))

(* a completed search that pruned a node and had to leave a task out       *)
C3_Witness ==
    /\ algorithm = "branch_bound"
    /\ pc = "done"
    /\ result.status = "optimal"
    /\ result.pruned > 0
    /\ \E i \in TaskIds : task_state[i].running_server = None
    /\ \E i \in TaskIds : task_state[i].running_server # None

(* C4: every price the VCG mechanism computes is between 0 and the task's  *)
(* value.                                                                  *)
C4_IndividuallyRational ==
    vcg.phase \in {"loop", "done"} =>
        \A t \in DOMAIN vcg.task_prices :
            /\ 0 <= vcg.task_prices[t]
            /\ vcg.task_prices[t] <= tasks[t].value

(* C5: after a successful VCG run every task accepted in A* carries the    *)
(* price V* - V(-t), V* the value of A* and V(-t) the value of a solve     *)
(* over exactly the other tasks started from a reset state; the tasks not  *)
(* accepted in A* carry no price.                                          *)
C5_PriceIsMarginal ==
    (algorithm \in {"vcg", "fixed_vcg"} /\ pc = "done" /\ vcg.phase = "done") =>
        /\ vcg.optimal_social_welfare = ResultValue(AllIds, vcg.optimal_tasks)
        /\ \A t \in TaskIds :
              IF vcg.optimal_tasks[t].running_server # None
              THEN /\ t \in DOMAIN vcg.prime
                   /\ vcg.prime[t].tasks_prime = TaskIds \ {t}
                   /\ vcg.prime[t].from_reset
                   /\ task_state[t].price
                          = <<vcg.optimal_social_welfare - vcg.prime[t].social_welfare>>
              ELSE task_state[t].price = NoPrice

(* a finished VCG run that priced two accepted tasks and left one price    *)
(* positive                                                                *)
C5_Witness ==
    /\ algorithm = "vcg"
    /\ pc = "done"
    /\ vcg.phase = "done"
    /\ Len(vcg.allocated_tasks) = 2
    /\ \E t \in TaskIds : task_state[t].price # NoPrice /\ task_state[t].price[1] > 0

(* a task's allocation without the price *)
Placement(x) ==
    [loading_speed |-> x.loading_speed, compute_speed |-> x.compute_speed,
     sending_speed |-> x.sending_speed, running_server |-> x.running_server]

(* C6: when a VCG run finishes, every task has the server and speeds it    *)
(* has in A* and every server the allocated set and available resources it *)
(* has in A*.                                                              *)
C6_RestoredOptimal ==
    (algorithm \in {"vcg", "fixed_vcg"} /\ pc = "done" /\ vcg.phase = "done") =>
        /\ \A t \in TaskIds : Placement(task_state[t]) = Placement(vcg.optimal_tasks[t])
        /\ server_state = vcg.optimal_servers

(* C8: the greedy loop runs at most |jobs| iterations: every iteration but *)
(* a last one that breaks commits exactly one job and takes it out of the  *)
(* jobs under consideration.                                               *)
C8_GreedyTerminates ==
    algorithm = "matrix_greedy" =>
        /\ iterations <= Len(tasks)
        /\ pc = "loop" => iterations = Len(tasks) - Len(unallocated_jobs)
        /\ pc = "break" => iterations = Len(tasks) - Len(unallocated_jobs) + 1
        /\ Len(tasks) - Len(unallocated_jobs)
               = Cardinality({ i \in TaskIds : task_state[i].running_server # None })
        /\ pc \in {"loop", "break", "done"}

(* a greedy run that took as many iterations as there are jobs and ended   *)
(* by breaking                                                             *)
C8_Witness ==
    /\ algorithm = "matrix_greedy"
    /\ pc = "done"
    /\ iterations = Len(tasks)
    /\ Len(tasks) = MaxTasks
    /\ unallocated_jobs # << >>

(* C9: a run one of whose solves stopped at its time limit still returns   *)
(* a result.                                                               *)
C9_TimeLimitGivesResult ==
    (algorithm \in {"fixed_optimal", "vcg"} /\ pc = "done" /\ time_limits_hit > 0)
        => result # ResultNone

(* C7: every run a driver starts is handed an instance on which no run was *)
(* made since its creation or its last reset, showing no allocation; and   *)
(* every re-solve of the VCG loop starts from a reset state.               *)
C7_ResetBetweenRuns ==
    /\ driver.name # "none" =>
           \A k \in DOMAIN driver.run_start :
               /\ ~driver.run_start[k].run_since_reset
               /\ driver.run_start[k].is_reset
    /\ vcg.phase \in {"loop", "done"} =>
           \A t \in DOMAIN vcg.prime : vcg.prime[t].from_reset

(* the sequential search's value on the instance *)
SequentialOptimum ==
    branch_bound_algorithm(AllIds, ResetTasks(tasks), ResetServers(servers),
                           NoBudget).search_value

(* C11: with several workers sharing the best value found, that value      *)
(* never decreases and is always the value of a complete capacity-feasible *)
(* assignment that was found; and under every interleaving, stale copies   *)
(* included, the result is the optimum the sequential search returns.      *)
C11_SharedBestSound ==
    /\ [](workers.phase # "none" =>
            /\ workers.best.solution \in FixedSolutions(AllIds)
            /\ workers.best.value = Objective(workers.best.solution)
            /\ workers.phase = "done" =>
                  /\ workers.best.value = SequentialOptimum
                  /\ workers.best.value = BruteForceMax(AllIds)
                  /\ result.value = workers.best.value)
    /\ [][workers.phase # "none" => workers'.best.value >= workers.best.value]_vars

(* a finished search in which a worker branched a node with a stale copy   *)
(* that the shared value would have pruned                                 *)
C11_Witness ==
    /\ workers.phase = "done"
    /\ workers.stale_branch
    /\ \E w \in WorkerIds : workers.worker[w].seen < workers.best.value
    /\ workers.best.value > 1

(* ------------------------------ Scenario C ----------------------------- *)
(* the tasks server j can host on its own, by capacity                     *)
Hosts(j) ==
    { i \in TaskIds : [k \in TaskIds |-> IF k = i THEN j ELSE None] \in FixedSolutions(AllIds) }

(* two servers, two tasks of equal value, each server able to host exactly *)
(* one of the tasks, and not the same one                                  *)
ScenarioC ==
    /\ Len(tasks) = 2
    /\ Len(servers) = 2
    /\ tasks[1].value = tasks[2].value
    /\ \E i \in TaskIds : \E k \in TaskIds :
          /\ i # k
          /\ Hosts(1) = {i}
          /\ Hosts(2) = {k}

(* C12: in Scenario C a VCG run whose solves all ended optimal accepts     *)
(* both tasks and prices each of them at 0.                                *)
C12_ScenarioCPriceZero ==
    (/\ algorithm = "vcg"
     /\ pc = "done"
     /\ time_limits_hit = 0
     /\ ScenarioC)
        => /\ result # ResultNone
           /\ \A i \in TaskIds :
                 /\ task_state[i].running_server # None
                 /\ task_state[i].price = <<0>>

C15_GreedyOrderAndFinality ==
    [][algorithm = "greedy" =>
        /\ unallocated_jobs' # unallocated_jobs =>
              \E i \in Range(unallocated_jobs) :
                  /\ Range(unallocated_jobs') = Range(unallocated_jobs) \ {i}
                  /\ \A u \in Range(unallocated_jobs) :
                        /\ ~Denser(value_density(greedy.value_density, tasks[u]),
                                   value_density(greedy.value_density, tasks[i]))
                        /\ ~Denser(value_density(greedy.value_density, tasks[i]),
                                   value_density(greedy.value_density, tasks[u])) => i <= u
                  /\ \/ task_state'[i].running_server # None
                     \/ i \in greedy'.dropped
        /\ \A i \in TaskIds :
              task_state[i].running_server # None =>
                  /\ task_state'[i] = task_state[i]
                  /\ i \in server_state'[task_state[i].running_server].allocated_tasks
        /\ \A i \in greedy.dropped :
              /\ i \in greedy'.dropped
              /\ i \notin Range(unallocated_jobs')
              /\ task_state'[i].running_server = None
    ]_vars

(* a run in which two tasks shared the maximal score, one was committed    *)
(* and the other dropped                                                   *)
C15_Witness ==
    /\ algorithm = "greedy"
    /\ pc = "done"
    /\ greedy.dropped # {}
    /\ \E i \in TaskIds : \E u \in TaskIds :
          /\ i < u
          /\ ~Denser(value_density(greedy.value_density, tasks[u]),
                     value_density(greedy.value_density, tasks[i]))
          /\ ~Denser(value_density(greedy.value_density, tasks[i]),
                     value_density(greedy.value_density, tasks[u]))
          /\ task_state[i].running_server # None
          /\ u \in greedy.dropped

(* a server with the availability sv can host the job: its storage fits    *)
(* and some speed triple within the available computation and bandwidth    *)
(* meets the deadline                                                      *)
CanHost(sv, job) ==
    /\ job.required_storage <= sv.available_storage
    /\ \E s \in 1..sv.available_bandwidth :
       \E w \in 1..sv.available_computation :
       \E r \in 1..sv.available_bandwidth :
          /\ s + r <= sv.available_bandwidth
          /\ DeadlineMet(job, s, w, r)

(* C16: when a greedy run (matrix_greedy or the Greedy Engine) has         *)
(* finished, no task left unallocated can be hosted by any server in the   *)
(* final state.                                                            *)
C16_GreedyMaximal ==
    (algorithm \in {"matrix_greedy", "greedy"} /\ pc = "done")
        => \A i \in TaskIds :
              task_state[i].running_server = None
                  => \A j \in ServerIds : ~CanHost(server_state[j], tasks[i])

(* a finished matrix_greedy run that allocated a job and left another,     *)
(* which a server could have hosted at the start                           *)
C16_Witness ==
    /\ algorithm = "matrix_greedy"
    /\ pc = "done"
    /\ \E i \in TaskIds : \E u \in TaskIds :
          /\ task_state[i].running_server # None
          /\ task_state[u].running_server = None
          /\ \E j \in ServerIds : CanHost(FullServer(servers[j]), tasks[u])

(* ------------------------- VCG all or nothing -------------------------- *)
(* C17: a VCG run one of whose solves failed returns no result and leaves  *)
(* no task with a price and no task or server holding an allocation; and   *)
(* a task carries a price only once the run has ended in its restore, with *)
(* a re-solve made for every task the full solve allocated.                *)
C17_VcgAllOrNothing ==
    algorithm \in {"vcg", "fixed_vcg"} =>
        /\ vcg.phase = "failed" =>
              /\ pc = "done"
              /\ result = ResultNone
              /\ \A i \in TaskIds : task_state[i] = UnallocatedTask
              /\ \A j \in ServerIds : server_state[j] = FullServer(servers[j])
        /\ \A i \in TaskIds :
              task_state[i].price # NoPrice =>
                  /\ vcg.phase = "done"
                  /\ result # ResultNone
                  /\ DOMAIN vcg.prime = Range(vcg.allocated_tasks)
                  /\ i \in DOMAIN vcg.task_prices
                  /\ task_state[i].price = <<vcg.task_prices[i]>>

(* a run abandoned at its second re-solve, the first one having given a    *)
(* price                                                                   *)
C17_Witness ==
    /\ algorithm = "vcg"
    /\ vcg.phase = "failed"
    /\ "task_prices" \in DOMAIN vcg
    /\ DOMAIN vcg.task_prices # {}
    /\ Len(vcg.allocated_tasks) = 2

(* -------------------- mutated_iterative_auction ------------------------ *)
(* C18: after every mutation repeat of mutated_iterative_auction, whether  *)
(* its auction gave a result or none, the jobs list and the servers list   *)
(* hold the original jobs and servers and no mutant, and the allocation    *)
(* state is the reset one.                                                 *)
C18_MutantsNeverSurvive ==
    (/\ driver.name = "mutated_iterative_auction"
     /\ driver.pos = "mutate"
     /\ driver.index >= 1)
        => /\ driver.mutant_jobs = {}
           /\ driver.mutant_servers = {}
           /\ Range(driver.jobs) = TaskIds
           /\ Range(driver.servers) = ServerIds
           /\ IsReset(task_state, server_state)


====
